---- MODULE Spec2Model ----
(***************************************************************************)
(* Model of the player/game membership API of callback/fastapi.py and the  *)
(* tables of callback/models.py.                                           *)
(*                                                                         *)
(* A request is served by a worker in the steps FastAPI takes for it: the  *)
(* AuthJWT dependency is built, the pydantic body model runs its           *)
(* validators (each one a query on the store), and only then the endpoint  *)
(* function runs Authorize.jwt_required() and writes.  Every query and     *)
(* every write is one step, so requests of different workers interleave    *)
(* between the validation reads and the write; transaction.atomic wraps    *)
(* the function object returned by app.post, not the registered route, and *)
(* the validators run outside the endpoint in any case.                    *)
(***************************************************************************)
EXTENDS Integers, Sequences, FiniteSets, Bags, TLC

VARIABLES
    player,        \* the rows of the table of Player
    game,          \* the rows of the table of Game
    game_players,  \* the rows of the table of Game.players, a bag
    seq,           \* the last primary key given out, per table
    clock,         \* the logical time of the last save()
    req,           \* req[r]: the request worker r is serving
    hist           \* the last response a one-request-at-a-time client got

vars == <<player, game, game_players, seq, clock, req, hist>>

(***************************************************************************)
(* Bounds of the model.                                                    *)
(***************************************************************************)
\* The store holds at most MaxPlayers players and MaxGames games.
MaxPlayers == 6
MaxGames == 2

\* The workers that serve requests concurrently, and the one worker of a
\* client that sends one request at a time.
Workers == {1, 2}
SeqWorkers == {1}

(***************************************************************************)
(* Program constants.                                                      *)
(***************************************************************************)
NameMaxLength == 54
EmailMaxLength == 54
PlayersThreshold == 4

None == 0

(***************************************************************************)
(* Characters and strings.  A string is a sequence of one-character        *)
(* strings.                                                                *)
(***************************************************************************)
allowed_chars ==
    {"0", "1", "2", "3", "4", "5", "6", "7", "8", "9", "a", "b", "c", "d", "e", "f"}

WordChars == allowed_chars \cup {"g", "z", "_"}

AddrChars == WordChars \cup {".", "-"}

Chars(s) == {s[i] : i \in 1..Len(s)}

Digit(i) == CASE i = 0 -> "0" [] i = 1 -> "1" [] i = 2 -> "2" [] i = 3 -> "3"
              [] i = 4 -> "4" [] i = 5 -> "5" [] i = 6 -> "6" [] i = 7 -> "7"
              [] i = 8 -> "8" [] OTHER -> "9"

\* re.match(r'^[\w\.-]+@[\w\.-]+\.\w+$', email): a non-empty run of address
\* characters, "@", a non-empty run of address characters, ".", a non-empty
\* run of word characters; "$" also matches before one trailing newline.
PatternMatchesUpTo(email, n) ==
    \E i \in 2..n : \E j \in (i + 2)..(n - 1) :
        /\ email[i] = "@"
        /\ email[j] = "."
        /\ \A k \in 1..(i - 1) : email[k] \in AddrChars
        /\ \A k \in (i + 1)..(j - 1) : email[k] \in AddrChars
        /\ \A k \in (j + 1)..n : email[k] \in WordChars

re_match(email) ==
    \/ PatternMatchesUpTo(email, Len(email))
    \/ /\ Len(email) > 0
       /\ email[Len(email)] = "\n"
       /\ PatternMatchesUpTo(email, Len(email) - 1)

(***************************************************************************)
(* The inputs of the requests.                                             *)
(***************************************************************************)
SeedName(i) == <<Digit(i)>>
SeedEmail(i) == <<Digit(i), "@", "b", ".", "c">>

\* The bodies of POST /new_player: two names of hexadecimal digits and one
\* that is not, two well-formed emails and one that is not.
PlayerItems ==
    {[name |-> <<"a">>, email |-> <<"a", "@", "b", ".", "c">>],
     [name |-> <<"a">>, email |-> <<"f", "@", "b", ".", "c">>],
     [name |-> <<"b">>, email |-> <<"a", "@", "b", ".", "c">>],
     [name |-> <<"g">>, email |-> <<"a", "@", "b", ".", "c">>],
     [name |-> <<"a">>, email |-> <<"a", "@", "b">>]}
GameNames == {<<"c", "u", "p">>}
\* The bodies of POST /add_player_to_game: the first and the last player and
\* game the store has room for, and a game beyond them.
PlayerIds == {1, MaxPlayers}
GameIds == {1, MaxGames + 1}
Credentials == {"valid", "missing", "malformed"}

(***************************************************************************)
(* The tables.                                                             *)
(***************************************************************************)
Player(id, name, email, now) ==
    [id |-> id, name |-> name, email |-> email, created_at |-> now, updated_at |-> now]

Game(id, name, now) ==
    [id |-> id, name |-> name, created_at |-> now, updated_at |-> now]

\* A row of the table of Game.players; the table is a bag of rows.
Through(game_id, player_id) == [game_id |-> game_id, player_id |-> player_id]

\* game.players of the game with primary key game_id, as the rows of the
\* table
players_rows(rows, game_id) ==
    [row \in {x \in BagToSet(rows) : x.game_id = game_id} |-> rows[row]]

\* game.players.count()
players_count(rows, game_id) == BagCardinality(players_rows(rows, game_id))

\* game.players.values_list('pk', flat=True)
players_values_list(rows, game_id) ==
    {row.player_id : row \in BagToSet(players_rows(rows, game_id))}

Db == [player |-> player, game |-> game, game_players |-> game_players]

(***************************************************************************)
(* The stores the model starts from: the empty store, and the stores that  *)
(* requests sent one at a time have filled with np players and ng games    *)
(* and in which the nm players after the first have been added to game 1.  *)
(***************************************************************************)
Seeds ==
    {[np |-> 0, ng |-> 0, nm |-> 0]}
        \cup {[np |-> MaxPlayers, ng |-> MaxGames, nm |-> m] : m \in 0..(PlayersThreshold + 1)}

(***************************************************************************)
(* Requests.                                                               *)
(***************************************************************************)
Idle ==
    [pc |-> "idle", op |-> "none", cred |-> "none", name |-> <<>>, email |-> <<>>,
     game_id |-> None, player_id |-> None, errors |-> {}, outcome |-> "none",
     id |-> None]

\* What a client that sends one request at a time knows when it sends the
\* next one: its last request and the response to it, the number of players
\* the game of that request had when it was sent, and the store when the
\* response came.
History(q, count0, db) ==
    [op |-> q.op, game_id |-> q.game_id, player_id |-> q.player_id,
     outcome |-> q.outcome, count0 |-> count0, db |-> db]

Init ==
    \E s \in Seeds :
        /\ player = {Player(i, SeedName(i), SeedEmail(i), i) : i \in 1..s.np}
        /\ game = {Game(i, <<"c", "u", "p">>, s.np + i) : i \in 1..s.ng}
        /\ game_players = SetToBag({Through(1, i + 1) : i \in 1..s.nm})
        /\ seq = [player |-> s.np, game |-> s.ng]
        /\ clock = s.np + s.ng
        /\ req = [r \in Workers |-> Idle]
        /\ hist = History(Idle, 0, Db)

(***************************************************************************)
(* The AuthJWT dependency and Authorize.jwt_required().                    *)
(***************************************************************************)
\* AuthJWT.__init__ raises on an Authorization header that is not of the
\* form "Bearer <token>"; a missing header passes.
DependsRaises(cred) == cred = "malformed"

\* AuthJWT.jwt_optional(): a request without a token passes.
jwt_optional(cred) == cred # "malformed"

\* AuthJWT.jwt_required(): passes with a valid token only.
jwt_required(cred) == cred = "valid"

\* A request arrives at worker r and FastAPI solves its dependencies: the
\* AuthJWT dependency first, then the body, whose first validator raised the
\* errors given; the request goes on at next.
Receive(r, op, cred, name, email, game_id, player_id, errors, next) ==
    /\ req[r].pc = "idle"
    /\ req' = [req EXCEPT ![r] =
                 [pc |-> IF DependsRaises(cred) THEN "done" ELSE next,
                  op |-> op, cred |-> cred, name |-> name, email |-> email,
                  game_id |-> game_id, player_id |-> player_id,
                  errors |-> IF DependsRaises(cred) THEN {} ELSE errors,
                  outcome |-> IF DependsRaises(cred) THEN "Unauthenticated" ELSE "none",
                  id |-> None]]

\* The validators have run: RequestValidationError if any of them raised,
\* otherwise the endpoint function is called.
Validated(q, errors) ==
    IF errors # {}
    THEN [q EXCEPT !.errors = errors, !.pc = "done", !.outcome = "ValidationError"]
    ELSE [q EXCEPT !.pc = "endpoint"]

(***************************************************************************)
(* POST /new_player                                                        *)
(***************************************************************************)
\* A validate_name that does not look the name up.
validate_name_NoLookup(name, rows) ==
    IF Len(name) > NameMaxLength THEN {"NameTooLong"}
    ELSE IF ~(Chars(name) \subseteq allowed_chars) THEN {"InvalidNameCharset"}
    ELSE {}

validate_name(name, rows) ==
    IF Len(name) > NameMaxLength THEN {"NameTooLong"}
    ELSE IF ~(Chars(name) \subseteq allowed_chars) THEN {"InvalidNameCharset"}
    ELSE IF \E row \in rows : row.name = name THEN {"DuplicateName"}
    ELSE {}

validate_email(email, rows) ==
    IF Len(email) > EmailMaxLength THEN {"EmailTooLong"}
    ELSE IF ~re_match(email) THEN {"InvalidEmailFormat"}
    ELSE IF \E row \in rows : row.email = email THEN {"DuplicateEmail"}
    ELSE {}

ValidateName(r) ==
    /\ Cardinality(player) < MaxPlayers
    /\ \E item \in PlayerItems, cred \in Credentials :
           Receive(r, "new_player", cred, item.name, item.email, None, None,
                   validate_name(item.name, player), "validate_email")
    /\ UNCHANGED <<player, game, game_players, seq, clock, hist>>

\* A validate_email that looks the email up with get_or_create.
ValidateEmail_GetOrCreate(r) ==
    /\ req[r].pc = "validate_email"
    /\ req' = [req EXCEPT ![r] =
                 Validated(req[r], req[r].errors \cup validate_email(req[r].email, player))]
    /\ player' = player \cup
           {Player(seq.player + 1, req[r].name, req[r].email, clock + 1)}
    /\ seq' = [seq EXCEPT !.player = seq.player + 1]
    /\ clock' = clock + 1
    /\ UNCHANGED <<game, game_players, hist>>

ValidateEmail(r) ==
    /\ req[r].pc = "validate_email"
    /\ req' = [req EXCEPT ![r] =
                 Validated(req[r], req[r].errors \cup validate_email(req[r].email, player))]
    /\ UNCHANGED <<player, game, game_players, seq, clock, hist>>

\* The unique constraints of Player.name and Player.email
PlayerUnique(rows, name, email) ==
    \A row \in rows : row.name # name /\ row.email # email

\* A save() on a table without the unique constraints.
save_player_NoUnique(rows, id, name, email, now) ==
    rows \cup {Player(id, name, email, now)}

\* Player(...).save(): the store refuses a row that breaks a unique constraint
save_player(rows, id, name, email, now) ==
    IF PlayerUnique(rows, name, email)
    THEN rows \cup {Player(id, name, email, now)}
    ELSE rows

create_new_player(r) ==
    /\ req[r].pc = "endpoint"
    /\ req[r].op = "new_player"
    /\ IF ~jwt_required(req[r].cred)
       THEN /\ req' = [req EXCEPT ![r].pc = "done", ![r].outcome = "Unauthenticated"]
            /\ UNCHANGED <<player, seq, clock>>
       ELSE /\ player' = save_player(player, seq.player + 1, req[r].name, req[r].email,
                                     clock + 1)
            /\ IF player' = player
               THEN /\ req' = [req EXCEPT ![r].pc = "done",
                                          ![r].outcome = "IntegrityError"]
                    /\ UNCHANGED <<seq, clock>>
               ELSE /\ seq' = [seq EXCEPT !.player = seq.player + 1]
                    /\ clock' = clock + 1
                    /\ req' = [req EXCEPT ![r].pc = "done", ![r].outcome = "success",
                                          ![r].id = seq.player + 1]
    /\ UNCHANGED <<game, game_players, hist>>

(***************************************************************************)
(* POST /new_game                                                          *)
(***************************************************************************)
\* GameItem has no validator: the endpoint function is called next.
ReceiveNewGame(r) ==
    /\ Cardinality(game) < MaxGames
    /\ \E name \in GameNames, cred \in Credentials :
           Receive(r, "new_game", cred, name, <<>>, None, None, {}, "endpoint")
    /\ UNCHANGED <<player, game, game_players, seq, clock, hist>>

\* An endpoint that answers with the game of that name when there is one.
create_new_game_GetOrCreate(r) ==
    /\ req[r].pc = "endpoint"
    /\ req[r].op = "new_game"
    /\ IF ~jwt_required(req[r].cred)
       THEN /\ req' = [req EXCEPT ![r].pc = "done", ![r].outcome = "Unauthenticated"]
            /\ UNCHANGED <<game, seq, clock>>
       ELSE IF \E g \in game : g.name = req[r].name
       THEN /\ req' = [req EXCEPT ![r].pc = "done", ![r].outcome = "success",
                                  ![r].id = (CHOOSE g \in game : g.name = req[r].name).id]
            /\ UNCHANGED <<game, seq, clock>>
       ELSE /\ game' = game \cup {Game(seq.game + 1, req[r].name, clock + 1)}
            /\ seq' = [seq EXCEPT !.game = seq.game + 1]
            /\ clock' = clock + 1
            /\ req' = [req EXCEPT ![r].pc = "done", ![r].outcome = "success",
                                  ![r].id = seq.game + 1]
    /\ UNCHANGED <<player, game_players, hist>>

create_new_game(r) ==
    /\ req[r].pc = "endpoint"
    /\ req[r].op = "new_game"
    /\ IF ~jwt_required(req[r].cred)
       THEN /\ req' = [req EXCEPT ![r].pc = "done", ![r].outcome = "Unauthenticated"]
            /\ UNCHANGED <<game, seq, clock>>
       ELSE /\ game' = game \cup {Game(seq.game + 1, req[r].name, clock + 1)}
            /\ seq' = [seq EXCEPT !.game = seq.game + 1]
            /\ clock' = clock + 1
            /\ req' = [req EXCEPT ![r].pc = "done", ![r].outcome = "success",
                                  ![r].id = seq.game + 1]
    /\ UNCHANGED <<player, game_players, hist>>

(***************************************************************************)
(* POST /add_player_to_game                                                *)
(***************************************************************************)
\* A validator of player_id that does not look the player up.
validate_player_id_NoLookup(player_id, rows) == {}

validate_player_id(player_id, rows) ==
    IF \E row \in rows : row.id = player_id THEN {} ELSE {"PlayerNotFound"}

ValidatePlayerId(r) ==
    /\ \E game_id \in GameIds, player_id \in PlayerIds, cred \in Credentials :
           Receive(r, "add_player_to_game", cred, <<>>, <<>>, game_id, player_id,
                   validate_player_id(player_id, player), "validate_game_id")
    /\ UNCHANGED <<player, game, game_players, seq, clock, hist>>

\* values.get('player_id'): a field whose validator raised is not in values
values_player_id(q) ==
    IF "PlayerNotFound" \in q.errors THEN None ELSE q.player_id

\* A root validator without the check of count().
validate_game_id_NoCount(game_id, games, rows) ==
    IF ~(\E g \in games : g.id = game_id) THEN {"GameNotFound"} ELSE {}

\* A root validator that compares the count with 5.
validate_game_id_OffByOne(game_id, games, rows) ==
    IF ~(\E g \in games : g.id = game_id) THEN {"GameNotFound"}
    ELSE IF players_count(rows, game_id) > PlayersThreshold + 1 THEN {"GameFull"}
    ELSE {}

\* The root validator up to game.players.count()
validate_game_id(game_id, games, rows) ==
    IF ~(\E g \in games : g.id = game_id) THEN {"GameNotFound"}
    ELSE IF players_count(rows, game_id) > PlayersThreshold THEN {"GameFull"}
    ELSE {}

ValidateGameId(r) ==
    /\ req[r].pc = "validate_game_id"
    /\ LET raised == validate_game_id(req[r].game_id, game, game_players)
       IN  req' = [req EXCEPT ![r] =
                     IF raised # {}
                     THEN Validated(req[r], req[r].errors \cup raised)
                     ELSE [req[r] EXCEPT !.pc = "values_list"]]
    /\ UNCHANGED <<player, game, game_players, seq, clock, hist>>

\* A root validator without the check of values_list.
validate_already_Never(player_id, game_id, rows) == {}

\* The root validator from game.players.values_list('pk', flat=True)
validate_already(player_id, game_id, rows) ==
    IF player_id \in players_values_list(rows, game_id) THEN {"AlreadyMember"} ELSE {}

ValidateValuesList(r) ==
    /\ req[r].pc = "values_list"
    /\ req' = [req EXCEPT ![r] =
                 Validated(req[r],
                           req[r].errors \cup
                               validate_already(values_player_id(req[r]), req[r].game_id,
                                                game_players))]
    /\ UNCHANGED <<player, game, game_players, seq, clock, hist>>

\* game.players.set([player_id]): the players of the game are replaced.
players_add_Set(rows, game_id, player_id) ==
    (rows (-) players_rows(rows, game_id)) (+) SetToBag({Through(game_id, player_id)})

\* An add that inserts a row whether or not the relation exists.
players_add_Always(rows, game_id, player_id) ==
    rows (+) SetToBag({Through(game_id, player_id)})

\* game.players.add(player_id): a relation that exists is not added again
players_add(rows, game_id, player_id) ==
    IF BagIn(Through(game_id, player_id), rows)
    THEN rows
    ELSE rows (+) SetToBag({Through(game_id, player_id)})

add_player_to_game(r) ==
    /\ req[r].pc = "endpoint"
    /\ req[r].op = "add_player_to_game"
    /\ IF ~jwt_required(req[r].cred)
       THEN /\ req' = [req EXCEPT ![r].pc = "done", ![r].outcome = "Unauthenticated"]
            /\ UNCHANGED game_players
       ELSE IF ~(\E g \in game : g.id = req[r].game_id)
       THEN /\ req' = [req EXCEPT ![r].pc = "done", ![r].outcome = "DoesNotExist"]
            /\ UNCHANGED game_players
       ELSE /\ game_players' =
                   players_add(game_players, req[r].game_id, req[r].player_id)
            /\ req' = [req EXCEPT ![r].pc = "done", ![r].outcome = "success",
                                  ![r].id = req[r].game_id]
    /\ UNCHANGED <<player, game, seq, clock, hist>>

(***************************************************************************)
(* The response is sent and the worker is free for the next request.       *)
(***************************************************************************)
Respond(r) ==
    /\ req[r].pc = "done"
    /\ req' = [req EXCEPT ![r] = Idle]
    /\ UNCHANGED <<player, game, game_players, seq, clock, hist>>

\* The same, seen by a client that keeps the last response it got.
RespondSeq(r) ==
    /\ req[r].pc = "done"
    /\ hist' = History(req[r], players_count(hist.db.game_players, req[r].game_id), Db)
    /\ req' = [req EXCEPT ![r] = Idle]
    /\ UNCHANGED <<player, game, game_players, seq, clock>>

Step(r) ==
    \/ ValidateName(r)
    \/ ValidateEmail(r)
    \/ create_new_player(r)
    \/ ReceiveNewGame(r)
    \/ create_new_game(r)
    \/ ValidatePlayerId(r)
    \/ ValidateGameId(r)
    \/ ValidateValuesList(r)
    \/ add_player_to_game(r)

Next == \E r \in Workers : Step(r) \/ Respond(r)

Spec == Init /\ [][Next]_vars

\* One request at a time: the next request is sent after the response.
SeqNext == \E r \in SeqWorkers : Step(r) \/ RespondSeq(r)

SeqSpec == Init /\ [][SeqNext]_vars

(***************************************************************************)
(* Properties.                                                             *)
(***************************************************************************)
Done(r) == req[r].pc = "done"

IsAdd(r) == req[r].op = "add_player_to_game"

IsNewPlayer(r) == req[r].op = "new_player"

GameExists(games, game_id) == \E g \in games : g.id = game_id

NamesOf(rows) == {row.name : row \in rows}

EmailsOf(rows) == {row.email : row \in rows}

\* The name and the email pass the checks that do not read the store.
WellFormed(name, email) == validate_name(name, {}) = {} /\ validate_email(email, {}) = {}

\* C1: no game ever has more than 5 players, whatever the interleaving of
\* the add_player_to_game requests.
C1_MemberCap ==
    \A g \in game : players_count(game_players, g.id) <= PlayersThreshold + 1

\* C2: of two finished new_player requests with the same name, valid
\* credentials and distinct well-formed emails that no other player has,
\* when one succeeded the other was rejected with DuplicateName.
C2_OneSuccessOthersDuplicateName ==
    \A r1, r2 \in Workers :
        ( /\ r1 # r2
          /\ Done(r1) /\ Done(r2)
          /\ IsNewPlayer(r1) /\ IsNewPlayer(r2)
          /\ req[r1].cred = "valid" /\ req[r2].cred = "valid"
          /\ req[r1].name = req[r2].name
          /\ req[r1].email # req[r2].email
          /\ WellFormed(req[r2].name, req[r2].email)
          /\ req[r2].email \notin EmailsOf(player)
          /\ req[r1].outcome = "success" )
        => /\ req[r2].outcome = "ValidationError"
           /\ req[r2].errors = {"DuplicateName"}

\* C3: no two distinct Player rows share a name, and no two share an email.
C3_NameAndEmailUnique ==
    \A p1, p2 \in player : p1 # p2 => p1.name # p2.name /\ p1.email # p2.email

\* Two new_player requests raced: the store refused the row of the second.
C3_Witness ==
    \E r \in Workers :
        /\ Done(r) /\ IsNewPlayer(r)
        /\ req[r].outcome = "IntegrityError"
        /\ req[r].name \in NamesOf(player)

\* C4: a request without a valid credential ends Unauthenticated, and no
\* validator has reported anything about it.
C4_AuthBeforeValidation ==
    \A r \in Workers :
        (Done(r) /\ req[r].cred # "valid")
        => req[r].outcome = "Unauthenticated" /\ req[r].errors = {}

\* The second of two add_player_to_game requests for the same game and
\* player, sent one after the other with a valid credential, the first of
\* which succeeded, has got its response.
SecondAdd(r) ==
    /\ Done(r) /\ IsAdd(r)
    /\ req[r].cred = "valid"
    /\ hist.op = "add_player_to_game"
    /\ hist.outcome = "success"
    /\ hist.game_id = req[r].game_id
    /\ hist.player_id = req[r].player_id

\* C5, as stated: the second request is rejected with AlreadyMember, for
\* every number of players (0 to 4) the game had before the first.
C5_SecondAlreadyMember ==
    \A r \in SeqWorkers :
        (SecondAdd(r) /\ hist.count0 \in 0..PlayersThreshold)
        => req[r].outcome = "ValidationError" /\ req[r].errors = {"AlreadyMember"}

\* C5, amended: the second request is rejected, with AlreadyMember when the
\* game had 0 to 3 players before the first request, and with GameFull when
\* it had 4.
C5_SecondRejected ==
    \A r \in SeqWorkers :
        (SecondAdd(r) /\ hist.count0 \in 0..PlayersThreshold)
        => /\ req[r].outcome = "ValidationError"
           /\ req[r].errors =
                  IF hist.count0 < PlayersThreshold THEN {"AlreadyMember"} ELSE {"GameFull"}

C5_Witness ==
    \E r \in SeqWorkers :
        /\ SecondAdd(r)
        /\ hist.count0 = PlayersThreshold - 1
        /\ req[r].errors = {"AlreadyMember"}

\* C6: requests sent one after the other with a valid credential.  A
\* new_player request with a well-formed name and email that no player of
\* the store has succeeds and adds exactly one Player, with this name and
\* email; with a name a player has and a fresh email it is rejected with
\* DuplicateName; with an email a player has and a fresh name it is
\* rejected with DuplicateEmail.
C6_CreateOnceThenDuplicate ==
    \A r \in SeqWorkers :
        ( /\ Done(r) /\ IsNewPlayer(r)
          /\ req[r].cred = "valid"
          /\ WellFormed(req[r].name, req[r].email) )
        => LET name == req[r].name
               email == req[r].email
               before == hist.db.player
           IN  /\ (name \notin NamesOf(before) /\ email \notin EmailsOf(before))
                  => /\ req[r].outcome = "success"
                     /\ \E row \in player \ before :
                            /\ player = before \cup {row}
                            /\ row.name = name /\ row.email = email
                            /\ row.id = req[r].id
               /\ (name \in NamesOf(before) /\ email \notin EmailsOf(before))
                  => /\ req[r].outcome = "ValidationError"
                     /\ req[r].errors = {"DuplicateName"}
                     /\ player = before
               /\ (name \notin NamesOf(before) /\ email \in EmailsOf(before))
                  => /\ req[r].outcome = "ValidationError"
                     /\ req[r].errors = {"DuplicateEmail"}
                     /\ player = before

\* A new_player request succeeded and the next one, with the same name and
\* a fresh email, was rejected.
C6_Witness ==
    \E r \in SeqWorkers :
        /\ Done(r) /\ IsNewPlayer(r)
        /\ req[r].cred = "valid"
        /\ req[r].errors = {"DuplicateName"}
        /\ hist.op = "new_player" /\ hist.outcome = "success"
        /\ \E row \in player : row.name = req[r].name /\ row.email # req[r].email

\* An add_player_to_game request with a valid credential, sent to a game
\* that had 5 players, has got its response.
AddToFullGame(r) ==
    /\ Done(r) /\ IsAdd(r)
    /\ req[r].cred = "valid"
    /\ GameExists(hist.db.game, req[r].game_id)
    /\ players_count(hist.db.game_players, req[r].game_id) = PlayersThreshold + 1

\* C7: a game with 5 players rejects a further add_player_to_game request
\* with GameFull, and its players are the same after the request as before.
C7_FullGameRejects ==
    \A r \in SeqWorkers :
        AddToFullGame(r)
        => /\ req[r].outcome = "ValidationError"
           /\ "GameFull" \in req[r].errors
           /\ game_players = hist.db.game_players

C7_Witness ==
    \E r \in SeqWorkers :
        /\ AddToFullGame(r)
        /\ ~BagIn(Through(req[r].game_id, req[r].player_id), game_players)
        /\ \E row \in player : row.id = req[r].player_id

\* The stages of a request in which its validators run.
Validating == {"validate_email", "validate_game_id", "values_list"}

\* C8: no step of a new_player or add_player_to_game request that is still
\* being validated, or that ends it with a validation rejection, changes a
\* Player row, a Game row or a row of Game.players.
C8_RejectionWritesNothing ==
    [][\A r \in Workers :
           ( /\ req'[r] # req[r]
             /\ \/ req'[r].pc \in Validating
                \/ req'[r].outcome = "ValidationError" )
           => Db' = Db]_vars

\* A request has been rejected by a validator while the store holds rows.
C8_Witness ==
    \E r \in Workers :
        /\ Done(r)
        /\ req[r].outcome = "ValidationError"
        /\ req[r].errors \cap {"DuplicateName", "DuplicateEmail", "AlreadyMember", "GameFull"} # {}

\* C9: the step in which add_player_to_game succeeds makes updated_at of the
\* game later than it was and leaves created_at of the game as it was.
C9_AddRefreshesUpdatedAt ==
    [][\A r \in Workers :
           ( /\ req[r].pc = "endpoint" /\ IsAdd(r)
             /\ req'[r].outcome = "success" )
           => /\ BagIn(Through(req[r].game_id, req[r].player_id), game_players')
              /\ \A g \in game :
                     g.id = req[r].game_id
                     => \E h \in game' :
                            /\ h.id = g.id
                            /\ h.created_at = g.created_at
                            /\ h.updated_at > g.updated_at]_vars

\* C10: Game.players holds no pair of a game and a player more than once.
C10_MemberAtMostOnce ==
    \A row \in BagToSet(game_players) : CopiesIn(row, game_players) = 1

\* Two requests for the same game and player both passed validation and both
\* called game.players.add.
C10_Witness ==
    \E r1, r2 \in Workers :
        /\ r1 # r2
        /\ Done(r1) /\ Done(r2)
        /\ IsAdd(r1) /\ IsAdd(r2)
        /\ req[r1].outcome = "success" /\ req[r2].outcome = "success"
        /\ req[r1].game_id = req[r2].game_id
        /\ req[r1].player_id = req[r2].player_id

\* The players of a game, read off the table of Game.players.
MembersOf(rows, game_id) ==
    {row.player_id : row \in {x \in BagToSet(rows) : x.game_id = game_id}}

\* The rejections the reference predicate of membership validation gives for
\* a game and a player in a store.
ReferenceRejections(db, game_id, player_id) ==
    LET noPlayer == \A row \in db.player : row.id # player_id
        noGame == \A g \in db.game : g.id # game_id
        members == MembersOf(db.game_players, game_id)
        full == Cardinality(members) >= 5
    IN  {e \in {"PlayerNotFound", "GameNotFound", "GameFull", "AlreadyMember"} :
            \/ e = "PlayerNotFound" /\ noPlayer
            \/ e = "GameNotFound" /\ noGame
            \/ e = "GameFull" /\ ~noGame /\ full
            \/ e = "AlreadyMember" /\ ~noGame /\ ~full /\ player_id \in members}

\* C11: the validators of add_player_to_game, run on one state of the store,
\* report exactly the rejections of the reference predicate, and the request
\* is accepted by them exactly when there is none.
C11_ValidationAgreesWithReference ==
    \A r \in SeqWorkers :
        (Done(r) /\ IsAdd(r) /\ req[r].cred # "malformed")
        => /\ req[r].errors =
                  ReferenceRejections(hist.db, req[r].game_id, req[r].player_id)
           /\ req[r].outcome = "ValidationError" <=> req[r].errors # {}

\* A request named a player and a game that do not exist.
C11_Witness ==
    \E r \in SeqWorkers :
        /\ Done(r) /\ IsAdd(r)
        /\ req[r].outcome = "ValidationError"
        /\ req[r].errors = {"PlayerNotFound", "GameNotFound"}

\* C12: the endpoint of an authenticated new_game request succeeds whatever
\* games exist: it adds exactly one Game, with an id no game had and no
\* players, answers with that id, and leaves every Player row, every other Game
\* row and every row of Game.players as it was.
C12_CreateGameAddsOneFreshGame ==
    [][\A r \in Workers :
          (/\ req[r].pc = "endpoint" /\ req[r].op = "new_game"
           /\ req[r].cred = "valid" /\ req'[r] # req[r])
          => /\ req'[r].outcome = "success"
             /\ \E g \in game' \ game :
                    /\ game' = game \cup {g}
                    /\ Cardinality(game') = Cardinality(game) + 1
                    /\ \A old \in game : old.id # g.id
                    /\ g.id = req'[r].id
                    /\ g.name = req[r].name
                    /\ players_count(game_players', g.id) = 0
             /\ player' = player
             /\ game_players' = game_players]_vars

\* A game was created while a game of the same name existed.
C12_Witness ==
    \E r \in Workers :
        /\ Done(r) /\ req[r].op = "new_game" /\ req[r].outcome = "success"
        /\ \E g \in game, old \in game :
               /\ g.id = req[r].id
               /\ old.id < g.id
               /\ old.name = g.name
               /\ players_count(game_players, g.id) = 0

\* C13: a request whose write meets a conflicting write of a concurrent request
\* is retried, so every request ends in success, a validation rejection,
\* Unauthenticated or a TransientStoreError, never in an unclassified error
\* of the store.
C13_NoUnclassifiedStoreError ==
    \A r \in Workers :
        Done(r) => req[r].outcome \in
            {"success", "ValidationError", "Unauthenticated", "TransientStoreError"}

\* The request of worker r has passed its validators and has not yet run its
\* endpoint, which will write.
AwaitsWrite(r) ==
    /\ req[r].pc = "endpoint"
    /\ req[r].cred = "valid"
    /\ req[r].errors = {}

\* C14: validation and write of a request are one atomic step: between the
\* reads of its validators and its own write, no other request writes a Player
\* of the same name or email, or a row of Game.players of the same game.
C14_ValidateThenCommitAtomic ==
    [][\A r \in Workers :
          (AwaitsWrite(r) /\ req'[r] = req[r])
          => /\ IsNewPlayer(r) =>
                    \A row \in player' \ player :
                        row.name # req[r].name /\ row.email # req[r].email
             /\ IsAdd(r) =>
                    players_rows(game_players', req[r].game_id)
                        = players_rows(game_players, req[r].game_id)]_vars

\* C15: the store only grows. Every step keeps every Player row, every Game
\* row and every player of every game; a row of Game.players appears only in
\* the endpoint step of an add_player_to_game request that succeeds.
C15_StoreOnlyGrows ==
    [][/\ player \subseteq player'
       /\ game \subseteq game'
       /\ game_players \sqsubseteq game_players'
       /\ \A g \in GameIds \cup {x.id : x \in game} :
              MembersOf(game_players, g) \subseteq MembersOf(game_players', g)
       /\ game_players' # game_players
              => \E r \in Workers :
                     /\ req[r].pc = "endpoint" /\ IsAdd(r)
                     /\ req'[r].outcome = "success"]_vars

\* A request has added a player to a game that had players.
C15_Witness ==
    \E r \in Workers :
        /\ Done(r) /\ IsAdd(r) /\ req[r].outcome = "success"
        /\ req[r].player_id \in MembersOf(game_players, req[r].game_id)
        /\ Cardinality(MembersOf(game_players, req[r].game_id)) >= 2

\* C16: a request without a valid credential never changes the store: every
\* step taken for such a request, whatever its body and whatever the store,
\* leaves the Player rows, the Game rows and the rows of Game.players as they
\* were.
C16_UnauthenticatedWritesNothing ==
    [][\A r \in Workers :
          LET q == IF req[r].pc = "idle" THEN req'[r] ELSE req[r]
          IN  (req'[r] # req[r] /\ q.cred # "valid")
              => /\ player' = player
                 /\ game' = game
                 /\ game_players' = game_players]_vars

\* A request without a token, whose body passed the validators, was refused by
\* the endpoint, and the name it asked for is not in the store.
C16_Witness ==
    \E r \in Workers :
        /\ Done(r) /\ IsNewPlayer(r)
        /\ req[r].cred = "missing"
        /\ req[r].errors = {}
        /\ req[r].outcome = "Unauthenticated"
        /\ req[r].name \notin NamesOf(player)

\* C17: in every reachable state every player of every game is a Player row
\* of the store, no two Player rows have the same id and no two Game rows
\* have the same id.
C17_ReferentialIntegrity ==
    /\ \A row \in BagToSet(game_players) : \E p \in player : p.id = row.player_id
    /\ \A p1, p2 \in player : p1.id = p2.id => p1 = p2
    /\ \A g1, g2 \in game : g1.id = g2.id => g1 = g2

\* Requests have created players and games and added a player to a game.
C17_Witness ==
    /\ Cardinality(player) \in 2..(MaxPlayers - 1)
    /\ Cardinality(game) >= 2
    /\ \E r \in Workers :
           /\ Done(r) /\ IsAdd(r) /\ req[r].outcome = "success"
           /\ BagIn(Through(req[r].game_id, req[r].player_id), game_players)

====
